---- MODULE Spec2Model ----
(***************************************************************************)
(* Model of the ResilientDB MCP server: the tool dispatcher                *)
(* (server.py, handle_call_tool) and its two leaf clients                  *)
(* (graphql_client.py, rescontract_client.py).                             *)
(*                                                                         *)
(* Python values are records tagged by their type name in field t.         *)
(* Text (str) is a sequence of tokens; concatenation of text is \o.        *)
(* One invocation of handle_call_tool is a coroutine: it runs from its     *)
(* call to its first await of an external operation, and from each         *)
(* response to the next await or to its return.                            *)
(*                                                                         *)
(* Three specifications: Spec is one invocation at a time with every       *)
(* input and answer; ConcSpec is several invocations interleaved at their  *)
(* awaits; StartupSpec is the import of server.py (config.py, then the     *)
(* construction of the two clients). Spec and ConcSpec start in the state  *)
(* Serving, where both clients exist.                                      *)
(***************************************************************************)
EXTENDS Integers, Sequences, FiniteSets, TLC

VARIABLES
    pc,         \* position of the invocation: idle, await_graph, await_cli,
                \* await_kv_get, await_kv_set, done, escaped
    name,       \* parameter name of handle_call_tool
    arguments,  \* parameter arguments of handle_call_tool, as passed
    calls,      \* external operations issued by this invocation, in order
    result,     \* what the routed leaf call produced (value or exception)
    response,   \* what handle_call_tool returned to the transport
    store,      \* content of the key-value endpoint, by key
    boot,       \* the import of server.py: its phase, the process environment,
                \* the attributes of class Config, the two module-level clients
    tasks       \* invocations of handle_call_tool running interleaved on the
                \* event loop: the frame (pc, name, arguments, calls, result,
                \* response) of each

vars == <<pc, name, arguments, calls, result, response, store, boot, tasks>>

(***************************************************************************)
(* Bounds                                                                  *)
(***************************************************************************)
NumKeys == 2

\* invocations the event loop runs at the same time
NumTasks == 2

(***************************************************************************)
(* Python values                                                           *)
(***************************************************************************)
PyNone == [t |-> "NoneType"]

PyStr(tokens) == [t |-> "str", s |-> tokens]

PyInt(digits) == [t |-> "int", n |-> digits]

PyBool(b) == [t |-> "bool", b |-> b]

PyDict(f) == [t |-> "dict", d |-> f]

PyList(l) == [t |-> "list", l |-> l]

EmptyDict == PyDict([k \in {} |-> PyNone])

Range(seq) == {seq[i] : i \in DOMAIN seq}

\* isinstance(value, str)
IsStr(v) == v.t = "str"

\* key in d, for a dict d
HasKey(d, k) == k \in DOMAIN d.d

\* d.get(k, default)
Get(d, k, default) == IF HasKey(d, k) THEN d.d[k] ELSE default

\* Python truthiness of the values the clients test (if output_dir:, ...)
Truthy(v) ==
    CASE v.t = "NoneType" -> FALSE
      [] v.t = "str" -> v.s # <<>>
      [] v.t = "bool" -> v.b
      [] v.t = "int" -> v.n # "0"
      [] v.t = "dict" -> DOMAIN v.d # {}
      [] v.t = "list" -> v.l # <<>>

\* The order in which json.dumps emits the keys of the dicts of this model
\* (dicts are modelled without insertion order).
KeyOrder ==
    <<"success", "payload", "errorKind", "error", "message", "tool", "arguments",
      "key", "value", "status", "response", "id",
      "operation", "amount", "signerPublicKey", "signerPrivateKey",
      "recipientPublicKey", "asset",
      "contractPath", "outputDir", "accountId", "contractAddress",
      "methodName", "transactionType", "transactionId", "data",
      "a", "output", "raw", "getTransaction", "postTransaction", "errors",
      "query", "variables">>

\* json.dumps escapes quotes and newlines inside a string
EscapeToken(tok) ==
    CASE tok = "\"" -> "\\\""
      [] tok = "\n" -> "\\n"
      [] OTHER -> tok

Escape(tokens) == [i \in DOMAIN tokens |-> EscapeToken(tokens[i])]

RECURSIVE JoinItems(_, _)
JoinItems(items, sep) ==
    IF items = <<>> THEN <<>>
    ELSE IF Len(items) = 1 THEN items[1]
    ELSE items[1] \o sep \o JoinItems(Tail(items), sep)

RECURSIVE JsonDumps(_)
\* json.dumps(v): the JSON text of a Python value
JsonDumps(v) ==
    CASE v.t = "NoneType" -> <<"null">>
      [] v.t = "str" -> <<"\"">> \o Escape(v.s) \o <<"\"">>
      [] v.t = "int" -> <<v.n>>
      [] v.t = "bool" -> IF v.b THEN <<"true">> ELSE <<"false">>
      [] v.t = "list" ->
            <<"[">> \o JoinItems([i \in DOMAIN v.l |-> JsonDumps(v.l[i])], <<", ">>) \o <<"]">>
      [] v.t = "dict" ->
            LET present == SelectSeq(KeyOrder, LAMBDA k : k \in DOMAIN v.d)
                item(k) == <<"\"", k, "\"", ": ">> \o JsonDumps(v.d[k])
            IN  <<"{">> \o JoinItems([i \in DOMAIN present |-> item(present[i])], <<", ">>) \o <<"}">>

IsSpace(tok) == tok \in {"\n", " "}

RECURSIVE LStrip(_)
LStrip(tokens) ==
    IF tokens # <<>> /\ IsSpace(Head(tokens)) THEN LStrip(Tail(tokens)) ELSE tokens

RECURSIVE RStrip(_)
RStrip(tokens) ==
    IF tokens # <<>> /\ IsSpace(tokens[Len(tokens)])
    THEN RStrip(SubSeq(tokens, 1, Len(tokens) - 1))
    ELSE tokens

\* str.strip()
Strip(tokens) == RStrip(LStrip(tokens))

(***************************************************************************)
(* Exceptions and the outcome of a call                                    *)
(***************************************************************************)
Exc(type, msg) == [type |-> type, msg |-> msg]

NoExc == Exc("", <<>>)

Ok(v) == [ok |-> TRUE, value |-> v, exc |-> NoExc]

Raised(e) == [ok |-> FALSE, value |-> PyNone, exc |-> e]

\* The classes an exception of the given class is an instance of
Bases(type) ==
    CASE type = "KeyError" -> {"KeyError", "LookupError", "Exception"}
      [] type = "ValueError" -> {"ValueError", "Exception"}
      [] type = "JSONDecodeError" -> {"JSONDecodeError", "ValueError", "Exception"}
      [] type = "AttributeError" -> {"AttributeError", "Exception"}
      [] type = "FileNotFoundError" -> {"FileNotFoundError", "OSError", "Exception"}
      [] type = "PermissionError" -> {"PermissionError", "OSError", "Exception"}
      [] type = "HTTPStatusError" -> {"HTTPStatusError", "HTTPError", "Exception"}
      [] type = "ConnectError" -> {"ConnectError", "HTTPError", "Exception"}
      [] type = "Exception" -> {"Exception"}
      [] OTHER -> {type}

\* str(KeyError(k)) is the repr of the key
KeyError(k) == Exc("KeyError", <<"'", k, "'">>)

(***************************************************************************)
(* The tool catalog and the invocations the transport can deliver          *)
(***************************************************************************)
ToolNames ==
    {"createAccount", "compileContract", "deployContract", "executeContract",
     "getTransaction", "postTransaction", "updateTransaction", "get", "set",
     "getContractState"}

\* "required" of each tool's inputSchema
SchemaRequired(n) ==
    CASE n = "createAccount" -> {}
      [] n = "compileContract" -> {"contractPath"}
      [] n = "deployContract" -> {"contractPath"}
      [] n = "executeContract" -> {"contractAddress", "methodName"}
      [] n = "getTransaction" -> {"transactionId"}
      [] n = "postTransaction" -> {"data"}
      [] n = "updateTransaction" -> {"transactionId", "data"}
      [] n = "get" -> {"key"}
      [] n = "set" -> {"key", "value"}
      [] n = "getContractState" -> {"contractAddress"}
      [] OTHER -> {}

UnknownNames == {"bogusTool", "Get"}

Names == ToolNames \cup UnknownNames

AllKeys == <<"k1", "k2", "k3", "k4">>

KeyValues == {PyStr(<<AllKeys[i]>>) : i \in 1..NumKeys}

DictA1 == PyDict([a |-> PyInt("1")])

\* the values a caller passes to set
ValueChoices ==
    {PyStr(<<"hello">>), PyStr(JsonDumps(DictA1)), DictA1, PyInt("1"), PyStr(<<"1">>)}

\* required_fields of post_transaction
required_fields ==
    <<"operation", "amount", "signerPublicKey", "signerPrivateKey",
      "recipientPublicKey", "asset">>

FieldValue(f) ==
    CASE f = "amount" -> PyInt("1")
      [] f = "asset" -> DictA1
      [] OTHER -> PyStr(<<"x">>)

DataChoices == {PyDict([f \in S |-> FieldValue(f)]) : S \in SUBSET Range(required_fields)}

FullData == PyDict([f \in Range(required_fields) |-> FieldValue(f)])

\* the argument names a caller may pass to each tool
ArgKeys(n) ==
    CASE n = "createAccount" -> {"accountId"}
      [] n = "compileContract" -> {"contractPath", "outputDir"}
      [] n = "deployContract" -> {"contractPath", "accountId"}
      [] n = "executeContract" -> {"contractAddress", "methodName", "transactionType"}
      [] n = "getTransaction" -> {"transactionId"}
      [] n = "postTransaction" -> {"data"}
      [] n = "updateTransaction" -> {"transactionId", "data"}
      [] n = "get" -> {"key"}
      [] n = "set" -> {"key", "value"}
      [] n = "getContractState" -> {"contractAddress"}
      [] OTHER -> {"key"}

\* the values a caller may pass for an argument
ArgValues(n, k) ==
    CASE k = "key" -> KeyValues
      [] k = "value" -> ValueChoices
      [] k = "data" -> IF n = "postTransaction" THEN DataChoices ELSE {FullData, EmptyDict}
      [] k = "contractPath" -> {PyStr(<<"/contracts/", "token.sol">>)}
      [] k = "outputDir" -> {PyStr(<<"build">>)}
      [] k = "accountId" -> {PyStr(<<"acct1">>)}
      [] k = "contractAddress" -> {PyStr(<<"0xabc">>)}
      [] k = "methodName" -> {PyStr(<<"transfer">>)}
      [] k = "transactionType" -> {PyStr(<<"send">>)}
      [] k = "transactionId" -> {PyStr(<<"tx1">>)}

\* the argument mappings a caller may pass to a tool: null, or any mapping
\* over a subset of the tool's argument names
ArgumentsFor(n) ==
    {PyNone} \cup
    UNION { { PyDict(f) : f \in { g \in [S -> UNION {ArgValues(n, k) : k \in S}] :
                                    \A k \in S : g[k] \in ArgValues(n, k) } }
            : S \in SUBSET ArgKeys(n) }

(***************************************************************************)
(* External operations                                                     *)
(***************************************************************************)
\* what an external operation was answered, while it has no answer yet
NoAnswer ==
    [kind |-> "none", status |-> 0, text |-> <<>>,
     launch |-> "", returncode |-> 0, stdout |-> <<>>, stderr |-> <<>>]

\* One external operation of an invocation: an HTTP request or a subprocess
Call(op, url, json, argv, cwd) ==
    [op |-> op, url |-> url, json |-> json, argv |-> argv, cwd |-> cwd,
     state |-> "pending", resp |-> NoAnswer, out |-> Ok(PyNone)]

\* A step of a coroutine: it awaits an external operation, or it has finished
AwaitStep(call) == [await |-> TRUE, call |-> call, out |-> Ok(PyNone)]

DoneStep(out) ==
    [await |-> FALSE, call |-> Call("", <<>>, PyNone, <<>>, PyNone), out |-> out]

HttpResponse(status, text) ==
    [NoAnswer EXCEPT !.kind = "http", !.status = status, !.text = text]

NetworkFailure == [NoAnswer EXCEPT !.kind = "network"]

\* status codes for which response.raise_for_status() raises
IsErrorStatus(status) == status >= 400

\* the failure of client.post / client.get / raise_for_status, or NoExc
HttpFailure(resp, url) ==
    IF resp.kind = "network"
    THEN Exc("ConnectError", <<"All connection attempts failed">>)
    ELSE IF IsErrorStatus(resp.status)
    THEN Exc("HTTPStatusError",
             <<"HTTP error '", ToString(resp.status), "' for url '">> \o url \o <<"'">>)
    ELSE NoExc

(***************************************************************************)
(* GraphQLClient                                                           *)
(***************************************************************************)
\* The client constructed at import; http_url is what Config.HTTP_URL holds
graphql_client ==
    [url |-> <<"http://localhost:9000/graphql">>,
     http_url |-> <<"Config.HTTP_URL">>,
     api_key |-> PyNone,
     timeout |-> 30]

_get_headers ==
    IF Truthy(graphql_client.api_key)
    THEN [ct |-> <<"application/json">>,
          auth |-> <<"Bearer ">> \o graphql_client.api_key.s]
    ELSE [ct |-> <<"application/json">>, auth |-> <<>>]

\* the request execute_query posts
GraphCall(query, variables) ==
    Call("graph", graphql_client.url,
         PyDict([query |-> PyStr(<<query>>), variables |-> variables]), <<>>, PyNone)

\* create_account answering with an account record it made up
create_account_Invented(account_id) ==
    DoneStep(Ok(PyDict([accountId |-> account_id])))

create_account(account_id) ==
    DoneStep(Raised(Exc("Exception",
        <<"createAccount is not available. ",
          "Account creation requires generating cryptographic keys outside of GraphQL. ",
          "Use external key generation tools to create accounts.">>)))

GraphQL_get_transaction(transaction_id) ==
    AwaitStep(GraphCall("query GetTransaction", PyDict([transactionId |-> transaction_id])))

\* the missing fields, had the search stopped at the first one
MissingFields_FirstOnly(data) ==
    LET all == SelectSeq(required_fields, LAMBDA f : ~HasKey(data, f))
    IN  IF all = <<>> THEN <<>> ELSE <<all[1]>>

\* [field for field in required_fields if field not in data]
MissingFields(data) == SelectSeq(required_fields, LAMBDA f : ~HasKey(data, f))

\* ', '.join(fields)
CommaJoin(fields) == JoinItems([i \in DOMAIN fields |-> <<fields[i]>>], <<", ">>)

post_transaction(data) ==
    LET missing_fields == MissingFields(data)
    IN  IF missing_fields # <<>>
        THEN DoneStep(Raised(Exc("Exception",
                <<"Missing required fields in PrepareAsset: ">> \o CommaJoin(missing_fields)
                \o <<". ", "Required fields: ">> \o CommaJoin(required_fields))))
        ELSE AwaitStep(GraphCall("mutation PostTransaction", PyDict([data |-> data])))

update_transaction(transaction_id, data) ==
    DoneStep(Raised(Exc("Exception",
        <<"updateTransaction is not available. ",
          "Blockchain transactions are immutable once committed. ",
          "To modify data, create a new transaction instead.">>)))

get_key_value(key) ==
    AwaitStep(Call("kv_get", graphql_client.http_url \o <<"/v1/transactions/">> \o key.s,
                   PyNone, <<>>, PyNone))

\* the value transmitted, had the conversion been left out
SetValue_Unconverted(value) == value

\* if not isinstance(value, str): value = json.dumps(value)
SetValue(value) == IF ~IsStr(value) THEN PyStr(JsonDumps(value)) ELSE value

set_key_value(key, value) ==
    AwaitStep(Call("kv_set", graphql_client.http_url \o <<"/v1/transactions/commit">>,
                   PyDict([id |-> key, value |-> SetValue(value)]), <<>>, PyNone))

(***************************************************************************)
(* ResContractClient                                                       *)
(***************************************************************************)
rescontract_client == [cli_path |-> "rescontract"]

CliCall(command, cwd) ==
    Call("cli", <<>>, PyNone, <<PyStr(<<rescontract_client.cli_path>>)>> \o command, cwd)

\* Path(contract_path).parent
Parent(path) == PyStr(SubSeq(path.s, 1, Len(path.s) - 1))

compile_contract(contract_path, output_dir, exists) ==
    IF ~exists
    THEN DoneStep(Raised(Exc("FileNotFoundError",
                             <<"Contract file not found: ">> \o contract_path.s)))
    ELSE AwaitStep(CliCall(
            <<PyStr(<<"compile">>), contract_path>>
            \o (IF Truthy(output_dir) THEN <<PyStr(<<"-o">>), output_dir>> ELSE <<>>),
            Parent(contract_path)))

deploy_contract(contract_path, account_id, constructor_args) ==
    AwaitStep(CliCall(
        <<PyStr(<<"deploy">>), contract_path>>
        \o (IF Truthy(account_id) THEN <<PyStr(<<"--account">>), account_id>> ELSE <<>>)
        \o (IF Truthy(constructor_args) THEN <<PyStr(<<"--args">>)>> \o constructor_args.l
            ELSE <<>>),
        PyNone))

execute_contract(contract_address, method_name, method_args, account_id, transaction_type) ==
    AwaitStep(CliCall(
        <<transaction_type, contract_address, method_name>>
        \o (IF Truthy(account_id) THEN <<PyStr(<<"--account">>), account_id>> ELSE <<>>)
        \o (IF Truthy(method_args) THEN <<PyStr(<<"--args">>)>> \o method_args.l ELSE <<>>),
        PyNone))

get_contract_state(contract_address) ==
    AwaitStep(CliCall(<<PyStr(<<"state">>), contract_address>>, PyNone))

ResContract_get_transaction(transaction_id) ==
    AwaitStep(CliCall(<<PyStr(<<"transaction">>), transaction_id>>, PyNone))

(***************************************************************************)
(* Tool Dispatcher: handle_call_tool up to its first await                 *)
(***************************************************************************)
\* if arguments is None: arguments = {}
NormArgs(a) == IF a = PyNone THEN EmptyDict ELSE a

\* the keys subscripted, had executeContract read methodName with .get
RequiredArgs_MethodNameOptional(n) ==
    CASE n = "compileContract" -> <<"contractPath">>
      [] n = "deployContract" -> <<"contractPath">>
      [] n = "executeContract" -> <<"contractAddress">>
      [] n = "getTransaction" -> <<"transactionId">>
      [] n = "postTransaction" -> <<"data">>
      [] n = "updateTransaction" -> <<"transactionId", "data">>
      [] n = "get" -> <<"key">>
      [] n = "set" -> <<"key", "value">>
      [] n = "getContractState" -> <<"contractAddress">>
      [] OTHER -> <<>>

\* the keys each branch subscripts (arguments["k"]), in the order it does
RequiredArgs(n) ==
    CASE n = "compileContract" -> <<"contractPath">>
      [] n = "deployContract" -> <<"contractPath">>
      [] n = "executeContract" -> <<"contractAddress", "methodName">>
      [] n = "getTransaction" -> <<"transactionId">>
      [] n = "postTransaction" -> <<"data">>
      [] n = "updateTransaction" -> <<"transactionId", "data">>
      [] n = "get" -> <<"key">>
      [] n = "set" -> <<"key", "value">>
      [] n = "getContractState" -> <<"contractAddress">>
      [] OTHER -> <<>>

\* the else branch, had it forwarded the unrecognized name to the CLI
UnknownTool_Forwarded(n) == get_contract_state(PyStr(<<n>>))

\* else: raise ValueError(f"Unknown tool: {name}")
UnknownTool(n) == DoneStep(Raised(Exc("ValueError", <<"Unknown tool: ", n>>)))

\* the leaf call each branch makes once its arguments are extracted
Route(n, args, exists) ==
    CASE n = "createAccount" -> create_account(Get(args, "accountId", PyNone))
      [] n = "compileContract" ->
            compile_contract(Get(args, "contractPath", PyNone),
                             Get(args, "outputDir", PyNone), exists)
      [] n = "deployContract" ->
            deploy_contract(Get(args, "contractPath", PyNone),
                            Get(args, "accountId", PyNone),
                            Get(args, "constructorArgs", PyNone))
      [] n = "executeContract" ->
            execute_contract(Get(args, "contractAddress", PyNone),
                             Get(args, "methodName", PyNone),
                             Get(args, "methodArgs", PyNone),
                             Get(args, "accountId", PyNone),
                             Get(args, "transactionType", PyStr(<<"call">>)))
      [] n = "getTransaction" ->
            GraphQL_get_transaction(Get(args, "transactionId", PyNone))
      [] n = "postTransaction" -> post_transaction(Get(args, "data", PyNone))
      [] n = "updateTransaction" ->
            update_transaction(Get(args, "transactionId", PyNone),
                               Get(args, "data", PyNone))
      [] n = "get" -> get_key_value(Get(args, "key", PyNone))
      [] n = "set" -> set_key_value(Get(args, "key", PyNone), Get(args, "value", PyNone))
      [] n = "getContractState" ->
            get_contract_state(Get(args, "contractAddress", PyNone))
      [] OTHER -> UnknownTool(n)

\* the body of the try block up to the first await
Dispatch(n, a, exists) ==
    LET args == NormArgs(a)
        missing == SelectSeq(RequiredArgs(n), LAMBDA k : ~HasKey(args, k))
    IN  IF missing # <<>>
        THEN DoneStep(Raised(KeyError(missing[1])))
        ELSE Route(n, args, exists)

\* the inner try, had it caught transport failures alone
FallbackCatches_TransportOnly(type) == "HTTPError" \in Bases(type)

\* except Exception (getTransaction's inner try)
FallbackCatches(type) == "Exception" \in Bases(type)

\* the outer try, had it named ValueError alone
HandlerCatches_ValueErrorOnly(type) == "ValueError" \in Bases(type)

\* except Exception as e (the handler's outer try)
HandlerCatches(type) == "Exception" \in Bases(type)

TextContent(text) == [type |-> "text", text |-> text]

\* error_details, had it reported a fixed kind instead of type(e).__name__
error_details_FixedKind(e, n, args) ==
    PyDict([error |-> PyStr(<<"Exception">>),
            message |-> PyStr(<<"Error executing tool '", n, "': ">> \o e.msg),
            tool |-> PyStr(<<n>>),
            arguments |-> args])

\* error_details of the except clause
error_details(e, n, args) ==
    PyDict([error |-> PyStr(<<e.type>>),
            message |-> PyStr(<<"Error executing tool '", n, "': ">> \o e.msg),
            tool |-> PyStr(<<n>>),
            arguments |-> args])

\* what the branch returns for a leaf result
SuccessContent(value) == <<TextContent(JsonDumps(value))>>

\* what the except clause returns
FailureContent(e, n, args) == <<TextContent(JsonDumps(error_details(e, n, args)))>>

(***************************************************************************)
(* What the external systems can answer                                    *)
(***************************************************************************)
CliTools ==
    {"compileContract", "deployContract", "executeContract", "getContractState",
     "getTransaction"}

\* a JSON document a CLI could print that has the shape of error_details
MimicDoc(n, a) ==
    error_details(Exc("Exception", <<"ResContract CLI error: ", "boom">>), n, NormArgs(a))

TxDoc == PyDict([getTransaction |-> PyDict([id |-> PyStr(<<"tx1">>)])])

ErrorList == PyList(<<PyDict([message |-> PyStr(<<"not found">>)])>>)

\* JSON bodies of the graph endpoint
GraphBodies ==
    {PyDict([data |-> TxDoc]),
     PyDict([data |-> TxDoc, errors |-> ErrorList]),
     PyDict([errors |-> ErrorList]),
     PyDict([errors |-> PyList(<<>>)]),
     EmptyDict}

\* the documents the key-value endpoint holds: the bodies it was sent
KvDocs ==
    {PyDict([id |-> k, value |-> v]) :
        k \in KeyValues, v \in ValueChoices \cup {SetValue(x) : x \in ValueChoices}}

\* the JSON documents of the model
JsonDocs ==
    {DictA1, EmptyDict, PyNone} \cup GraphBodies \cup KvDocs
    \cup {MimicDoc(n, a) : n \in CliTools, a \in UNION {ArgumentsFor(m) : m \in CliTools}}

\* json.loads(text) / response.json(): the document whose JSON text this is
\* the JSON text of each document
JsonTexts == [v \in JsonDocs |-> JsonDumps(v)]

JsonLoads(text) ==
    LET docs == {v \in JsonDocs : JsonTexts[v] = text}
    IN  IF docs = {}
        THEN Raised(Exc("JSONDecodeError", <<"Expecting value: line 1 column 1 (char 0)">>))
        ELSE Ok(CHOOSE v \in docs : TRUE)

GraphResponses ==
    {NetworkFailure, HttpResponse(500, <<"Internal Server Error">>),
     HttpResponse(200, <<"<html>">>)}
    \cup {HttpResponse(200, JsonDumps(b)) : b \in GraphBodies}

KvGetResponses(key) ==
    {NetworkFailure, HttpResponse(500, <<"Internal Server Error">>)}
    \cup (IF store[key] # PyNone
          THEN {HttpResponse(200, JsonDumps(store[key]))}
          ELSE {HttpResponse(404, <<>>), HttpResponse(200, <<"null">>)})

KvSetAccepted(key) == HttpResponse(200, <<"id: ">> \o key.s \o <<"\n">>)

KvSetResponses(key) ==
    {NetworkFailure, HttpResponse(500, <<"Internal Server Error">>), KvSetAccepted(key)}

\* how a subprocess ended; stdout and stderr are the texts stdout.decode()
\* and stderr.decode() yield
Proc(launch, returncode, stdout, stderr) ==
    [NoAnswer EXCEPT !.kind = "proc", !.launch = launch, !.returncode = returncode,
                     !.stdout = stdout, !.stderr = stderr]

CliStdouts(n, a) ==
    {<<>>, <<"deployed at 0xabc">>, <<"deployed at 0xabc", "\n">>,
     JsonDumps(DictA1) \o <<"\n">>, JsonDumps(MimicDoc(n, a))}

CliOutcomes(n, a) ==
    {Proc("FileNotFoundError", 0, <<>>, <<>>), Proc("PermissionError", 0, <<>>, <<>>)}
    \cup {Proc("ok", 1, out, err) : out \in {<<>>, JsonDumps(DictA1)},
                                      err \in {<<>>, <<"boom">>}}
    \cup {Proc("ok", 0, out, <<>>) : out \in CliStdouts(n, a)}

(***************************************************************************)
(* The leaf clients after their await                                      *)
(***************************************************************************)
\* the test, had errors been ignored whenever data came with them
HasErrors_UnlessData(body) == HasKey(body, "errors") /\ ~HasKey(body, "data")

\* if "errors" in result
HasErrors(body) == HasKey(body, "errors")

\* execute_query, from the response of client.post on
execute_query(resp) ==
    LET fail == HttpFailure(resp, graphql_client.url)
        parsed == JsonLoads(resp.text)
    IN  IF fail # NoExc THEN Raised(fail)
        ELSE IF ~parsed.ok THEN parsed
        ELSE IF HasErrors(parsed.value)
        THEN Raised(Exc("Exception",
                        <<"GraphQL errors: ">> \o JsonDumps(parsed.value.d["errors"])))
        ELSE Ok(Get(parsed.value, "data", EmptyDict))

\* get_key_value, from the response of client.get on
get_key_value_result(resp, call, key) ==
    LET fail == HttpFailure(resp, call.url)
        parsed == JsonLoads(resp.text)
    IN  IF fail # NoExc THEN Raised(fail)
        ELSE IF ~parsed.ok THEN parsed
        ELSE IF parsed.value.t # "dict"
        THEN Raised(Exc("AttributeError",
                        <<"'", parsed.value.t, "' object has no attribute 'get'">>))
        ELSE Ok(PyDict([key |-> key,
                        value |-> Get(parsed.value, "value", parsed.value),
                        response |-> parsed.value]))

\* set_key_value, from the response of client.post on
set_key_value_result(resp, call) ==
    LET fail == HttpFailure(resp, call.url)
    IN  IF fail # NoExc THEN Raised(fail)
        ELSE Ok(PyDict([key |-> call.json.d["id"],
                        value |-> call.json.d["value"],
                        status |-> PyStr(<<"committed">>),
                        response |-> PyStr(Strip(resp.text))]))

\* the test, had it looked for a negative status (death by signal) alone
ExitFailed_NegativeOnly(returncode) == returncode < 0

\* the parse, had the JSONDecodeError been left to propagate
ParseOutput_Propagating(output) == JsonLoads(output)

\* if process.returncode != 0
ExitFailed(returncode) == returncode # 0

\* try: return json.loads(output)
\* except json.JSONDecodeError: return {"output": output, "raw": True}
ParseOutput(output) ==
    LET parsed == JsonLoads(output)
    IN  IF parsed.ok THEN parsed
        ELSE Ok(PyDict([output |-> PyStr(output), raw |-> PyBool(TRUE)]))

\* _execute_command, from create_subprocess_exec on
_execute_command(proc) ==
    IF proc.launch = "FileNotFoundError"
    THEN Raised(Exc("Exception",
            <<"ResContract CLI not found at '", rescontract_client.cli_path, "'. ",
              "Please ensure it's installed and in your PATH, or set RESCONTRACT_CLI_PATH.">>))
    ELSE IF proc.launch # "ok"
    THEN Raised(Exc(proc.launch, <<"[Errno 13] Permission denied">>))
    ELSE IF ExitFailed(proc.returncode)
    THEN LET error_msg == IF proc.stderr # <<>> THEN proc.stderr ELSE <<"Unknown error">>
         IN  Raised(Exc("Exception", <<"ResContract CLI error: ">> \o error_msg))
    ELSE ParseOutput(Strip(proc.stdout))

\* the event loop's slots for interleaved invocations
Tasks == 1..NumTasks

\* a slot in which no invocation runs
IdleInvocation ==
    [pc |-> "idle", name |-> "", arguments |-> PyNone, calls |-> <<>>,
     result |-> Ok(PyNone), response |-> <<>>]

(***************************************************************************)
(* Startup: config.py and the module level of server.py                    *)
(***************************************************************************)
PyFloat(digits) == [t |-> "float", n |-> digits]

\* the process environment after load_dotenv(): each variable config.py
\* reads is unset (None) or set to a text
EnvChoices ==
    [RESILIENTDB_GRAPHQL_URL |-> {PyNone, PyStr(<<"http://ledger:18000/graphql">>)},
     RESCONTRACT_CLI_PATH |-> {PyNone, PyStr(<<"/opt/rescontract">>)},
     RESILIENTDB_API_KEY |-> {PyNone, PyStr(<<"secret">>)},
     RESILIENTDB_AUTH_TOKEN |-> {PyNone, PyStr(<<"token">>)},
     REQUEST_TIMEOUT |-> {PyNone, PyStr(<<"60">>), PyStr(<<"soon">>)},
     TRANSACTION_POLL_INTERVAL |-> {PyNone, PyStr(<<"0.5">>)},
     MAX_POLL_ATTEMPTS |-> {PyNone, PyStr(<<"60">>)}]

Environments == {e \in [DOMAIN EnvChoices -> UNION Range(EnvChoices)] :
                    \A v \in DOMAIN EnvChoices : e[v] \in EnvChoices[v]}

\* os.getenv(var, default)
getenv(env, var, default) == IF env[var] = PyNone THEN default ELSE env[var]

\* int(text): the texts of the model that are decimal integers
int(text) ==
    IF text.s \in {<<"30">>, <<"60">>}
    THEN Ok(PyInt(text.s[1]))
    ELSE Raised(Exc("ValueError",
             <<"invalid literal for int() with base 10: '">> \o text.s \o <<"'">>))

\* float(text)
float(text) ==
    IF text.s \in {<<"1.0">>, <<"0.5">>, <<"30">>, <<"60">>}
    THEN Ok(PyFloat(text.s[1]))
    ELSE Raised(Exc("ValueError",
             <<"could not convert string to float: '">> \o text.s \o <<"'">>))

\* the body of class Config, evaluated once when config is imported: the
\* attributes it defines, or the exception a conversion raised
Config(env) ==
    LET timeout == int(getenv(env, "REQUEST_TIMEOUT", PyStr(<<"30">>)))
        interval == float(getenv(env, "TRANSACTION_POLL_INTERVAL", PyStr(<<"1.0">>)))
        attempts == int(getenv(env, "MAX_POLL_ATTEMPTS", PyStr(<<"30">>)))
    IN  IF ~timeout.ok THEN [ok |-> FALSE, attrs |-> <<>>, exc |-> timeout.exc]
        ELSE IF ~interval.ok THEN [ok |-> FALSE, attrs |-> <<>>, exc |-> interval.exc]
        ELSE IF ~attempts.ok THEN [ok |-> FALSE, attrs |-> <<>>, exc |-> attempts.exc]
        ELSE [ok |-> TRUE,
              attrs |->
                [GRAPHQL_URL |-> getenv(env, "RESILIENTDB_GRAPHQL_URL",
                                        PyStr(<<"http://localhost:9000/graphql">>)),
                 RESCONTRACT_CLI_PATH |-> getenv(env, "RESCONTRACT_CLI_PATH",
                                                 PyStr(<<"rescontract">>)),
                 API_KEY |-> env["RESILIENTDB_API_KEY"],
                 AUTH_TOKEN |-> env["RESILIENTDB_AUTH_TOKEN"],
                 REQUEST_TIMEOUT |-> timeout.value,
                 TRANSACTION_POLL_INTERVAL |-> interval.value,
                 MAX_POLL_ATTEMPTS |-> attempts.value],
              exc |-> NoExc]

\* reading Config.<attr>
AttributeError(attr) ==
    Exc("AttributeError", <<"type object 'Config' has no attribute '", attr, "'">>)

\* the attributes GraphQLClient.__init__ reads from Config, in order
GraphQLClientReads == <<"GRAPHQL_URL", "HTTP_URL", "API_KEY", "REQUEST_TIMEOUT">>

\* GraphQLClient(): the object built from the attributes of Config, or the
\* AttributeError of the first attribute Config does not have
GraphQLClient(attrs) ==
    LET absent == {i \in DOMAIN GraphQLClientReads :
                      GraphQLClientReads[i] \notin DOMAIN attrs}
    IN  IF absent # {}
        THEN Raised(AttributeError(
                 GraphQLClientReads[CHOOSE i \in absent : \A j \in absent : i <= j]))
        ELSE Ok([url |-> attrs["GRAPHQL_URL"],
                 http_url |-> attrs["HTTP_URL"],
                 api_key |-> attrs["API_KEY"],
                 timeout |-> attrs["REQUEST_TIMEOUT"]])

\* ResContractClient()
ResContractClient(attrs) ==
    IF "RESCONTRACT_CLI_PATH" \notin DOMAIN attrs
    THEN Raised(AttributeError("RESCONTRACT_CLI_PATH"))
    ELSE Ok([cli_path |-> attrs["RESCONTRACT_CLI_PATH"]])

\* the interpreter is about to import server.py
Booting(env) ==
    [phase |-> "start", env |-> env, Config |-> <<>>,
     graphql_client |-> PyNone, rescontract_client |-> PyNone, error |-> NoExc]

\* no variable of the environment is set
DefaultEnv == [v \in DOMAIN EnvChoices |-> PyNone]

\* the module level of server.py has run to its end: both clients exist
\* and the handlers are registered
Serving ==
    [phase |-> "serving", env |-> DefaultEnv, Config |-> Config(DefaultEnv).attrs,
     graphql_client |-> graphql_client, rescontract_client |-> rescontract_client,
     error |-> NoExc]

StartupInit ==
    /\ pc = "idle"
    /\ name = ""
    /\ arguments = PyNone
    /\ calls = <<>>
    /\ result = Ok(PyNone)
    /\ response = <<>>
    /\ store = [k \in KeyValues |-> PyNone]
    /\ \E env \in Environments : boot = Booting(env)
    /\ tasks = [t \in Tasks |-> IdleInvocation]

\* from config import Config: load_dotenv() and the class body run
ImportConfig ==
    /\ boot.phase = "start"
    /\ LET cfg == Config(boot.env)
       IN  boot' = IF cfg.ok
                   THEN [boot EXCEPT !.phase = "config", !.Config = cfg.attrs]
                   ELSE [boot EXCEPT !.phase = "crashed", !.error = cfg.exc]
    /\ UNCHANGED <<pc, name, arguments, calls, result, response, store, tasks>>

\* graphql_client = GraphQLClient(); rescontract_client = ResContractClient()
InitializeClients ==
    /\ boot.phase = "config"
    /\ LET g == GraphQLClient(boot.Config)
           r == ResContractClient(boot.Config)
       IN  boot' = IF ~g.ok
                   THEN [boot EXCEPT !.phase = "crashed", !.error = g.exc]
                   ELSE IF ~r.ok
                   THEN [boot EXCEPT !.phase = "crashed", !.error = r.exc,
                                     !.graphql_client = g.value]
                   ELSE [boot EXCEPT !.phase = "serving",
                                     !.graphql_client = g.value,
                                     !.rescontract_client = r.value]
    /\ UNCHANGED <<pc, name, arguments, calls, result, response, store, tasks>>

StartupNext ==
    \/ ImportConfig
    \/ InitializeClients

StartupSpec == StartupInit /\ [][StartupNext]_vars

(***************************************************************************)
(* The invocation as a state machine                                       *)
(***************************************************************************)
AwaitPc(op) ==
    CASE op = "graph" -> "await_graph"
      [] op = "cli" -> "await_cli"
      [] op = "kv_get" -> "await_kv_get"
      [] op = "kv_set" -> "await_kv_set"

Finished(call, resp, out) ==
    [call EXCEPT !.state = IF out.ok THEN "ok" ELSE "failed", !.resp = resp, !.out = out]

\* the end of handle_call_tool: the branch's return, or the except clause
Complete(out, n, a) ==
    /\ result' = out
    /\ IF out.ok
       THEN pc' = "done" /\ response' = SuccessContent(out.value)
       ELSE IF HandlerCatches(out.exc.type)
       THEN pc' = "done" /\ response' = FailureContent(out.exc, n, NormArgs(a))
       ELSE pc' = "escaped" /\ response' = <<>>

Init ==
    /\ pc = "idle"
    /\ name = ""
    /\ arguments = PyNone
    /\ calls = <<>>
    /\ result = Ok(PyNone)
    /\ response = <<>>
    /\ store = [k \in KeyValues |-> PyNone]
    /\ boot = Serving
    /\ tasks = [t \in Tasks |-> IdleInvocation]

\* the transport calls handle_call_tool(name, arguments)
CallTool(n, a, exists) ==
    /\ pc = "idle"
    /\ name' = n
    /\ arguments' = a
    /\ LET step == Dispatch(n, a, exists)
       IN  IF step.await
           THEN /\ pc' = AwaitPc(step.call.op)
                /\ calls' = <<step.call>>
                /\ UNCHANGED <<result, response>>
           ELSE /\ calls' = <<>>
                /\ Complete(step.out, n, a)
    /\ UNCHANGED store
    /\ UNCHANGED <<boot, tasks>>

\* the graph endpoint answers
GraphRespond ==
    /\ pc = "await_graph"
    /\ \E resp \in GraphResponses :
        LET out == execute_query(resp)
            done == [calls EXCEPT ![Len(calls)] = Finished(calls[Len(calls)], resp, out)]
        IN  IF name = "getTransaction" /\ ~out.ok /\ FallbackCatches(out.exc.type)
            THEN LET step == ResContract_get_transaction(
                                 NormArgs(arguments).d["transactionId"])
                 IN  /\ calls' = Append(done, step.call)
                     /\ pc' = AwaitPc(step.call.op)
                     /\ UNCHANGED <<result, response>>
            ELSE /\ calls' = done
                 /\ Complete(out, name, arguments)
    /\ UNCHANGED <<name, arguments, store>>
    /\ UNCHANGED <<boot, tasks>>

\* the subprocess ends
CliRespond ==
    /\ pc = "await_cli"
    /\ \E proc \in CliOutcomes(name, arguments) :
        LET out == _execute_command(proc)
        IN  /\ calls' = [calls EXCEPT ![Len(calls)] = Finished(calls[Len(calls)], proc, out)]
            /\ Complete(out, name, arguments)
    /\ UNCHANGED <<name, arguments, store>>
    /\ UNCHANGED <<boot, tasks>>

\* the key-value endpoint answers a read
KvGetRespond ==
    /\ pc = "await_kv_get"
    /\ LET call == calls[Len(calls)]
           key == NormArgs(arguments).d["key"]
       IN  \E resp \in KvGetResponses(key) :
            LET out == get_key_value_result(resp, call, key)
            IN  /\ calls' = [calls EXCEPT ![Len(calls)] = Finished(call, resp, out)]
                /\ Complete(out, name, arguments)
    /\ UNCHANGED <<name, arguments, store>>
    /\ UNCHANGED <<boot, tasks>>

\* the key-value endpoint answers a commit; it stores what it accepted
KvSetRespond ==
    /\ pc = "await_kv_set"
    /\ LET call == calls[Len(calls)]
           key == call.json.d["id"]
       IN  \E resp \in KvSetResponses(key) :
            LET out == set_key_value_result(resp, call)
            IN  /\ calls' = [calls EXCEPT ![Len(calls)] = Finished(call, resp, out)]
                /\ Complete(out, name, arguments)
                /\ store' = IF resp = KvSetAccepted(key)
                            THEN [store EXCEPT ![key] = call.json]
                            ELSE store
    /\ UNCHANGED <<name, arguments>>
    /\ UNCHANGED <<boot, tasks>>

\* the transport takes what the handler returned (or raised); the next
\* invocation starts from fresh locals
Deliver ==
    /\ pc \in {"done", "escaped"}
    /\ pc' = "idle"
    /\ name' = ""
    /\ arguments' = PyNone
    /\ calls' = <<>>
    /\ result' = Ok(PyNone)
    /\ response' = <<>>
    /\ UNCHANGED store
    /\ UNCHANGED <<boot, tasks>>

Next ==
    \/ \E n \in Names : \E a \in ArgumentsFor(n) : \E exists \in BOOLEAN :
            CallTool(n, a, exists)
    \/ GraphRespond
    \/ CliRespond
    \/ KvGetRespond
    \/ KvSetRespond
    \/ Deliver

Spec == Init /\ [][Next]_vars

TypeOK ==
    /\ pc \in {"idle", "await_graph", "await_cli", "await_kv_get", "await_kv_set",
               "done", "escaped"}
    /\ Len(calls) <= 2
    /\ Len(response) <= 1

(***************************************************************************)
(* Interleaved invocations                                                 *)
(***************************************************************************)
\* the end of handle_call_tool in a frame: the branch's return, or the
\* except clause
Returned(inv, out) ==
    IF out.ok
    THEN [inv EXCEPT !.pc = "done", !.result = out,
                     !.response = SuccessContent(out.value)]
    ELSE IF HandlerCatches(out.exc.type)
    THEN [inv EXCEPT !.pc = "done", !.result = out,
                     !.response = FailureContent(out.exc, inv.name,
                                                 NormArgs(inv.arguments))]
    ELSE [inv EXCEPT !.pc = "escaped", !.result = out]

\* the frame of handle_call_tool(n, a) at its first await, or at its return
\* when it awaits nothing; exists is what the file system says of the
\* contract path
Started(n, a, exists) ==
    LET step == Dispatch(n, a, exists)
        inv == [IdleInvocation EXCEPT !.name = n, !.arguments = a]
    IN  IF step.await
        THEN [inv EXCEPT !.pc = AwaitPc(step.call.op), !.calls = <<step.call>>]
        ELSE Returned(inv, step.out)

\* getTransaction going on to the CLI whatever the graph fetch gave
FallsBack_Always(inv, out) == inv.name = "getTransaction"

\* the inner try of getTransaction: the graph fetch raised, the CLI is next
FallsBack(inv, out) ==
    inv.name = "getTransaction" /\ ~out.ok /\ FallbackCatches(out.exc.type)

\* the frame after the operation it awaits was answered resp: at its next
\* await, or at its return
Answered(inv, resp) ==
    LET call == inv.calls[Len(inv.calls)]
        out == CASE inv.pc = "await_graph" -> execute_query(resp)
                 [] inv.pc = "await_cli" -> _execute_command(resp)
                 [] inv.pc = "await_kv_get" ->
                        get_key_value_result(resp, call, NormArgs(inv.arguments).d["key"])
                 [] inv.pc = "await_kv_set" -> set_key_value_result(resp, call)
        done == [inv EXCEPT !.calls[Len(inv.calls)] = Finished(call, resp, out)]
    IN  IF inv.pc = "await_graph" /\ FallsBack(inv, out)
        THEN LET step == ResContract_get_transaction(
                             NormArgs(inv.arguments).d["transactionId"])
             IN  [done EXCEPT !.pc = AwaitPc(step.call.op),
                              !.calls = Append(done.calls, step.call)]
        ELSE Returned(done, out)

\* the key interleaved invocations read and write
SharedKey == PyStr(<<AllKeys[1]>>)

\* what the transport asks for while other invocations are in flight: each
\* tool with its required arguments, getTransaction also without them, an
\* unknown tool, and whether the contract file exists
ConcRequests ==
    {<<"createAccount", EmptyDict, FALSE>>,
     <<"compileContract", PyDict([contractPath |-> PyStr(<<"/contracts/", "token.sol">>)]), TRUE>>,
     <<"deployContract", PyDict([contractPath |-> PyStr(<<"/contracts/", "token.sol">>)]), TRUE>>,
     <<"executeContract", PyDict([contractAddress |-> PyStr(<<"0xabc">>),
                                  methodName |-> PyStr(<<"transfer">>)]), FALSE>>,
     <<"getTransaction", PyDict([transactionId |-> PyStr(<<"tx1">>)]), FALSE>>,
     <<"getTransaction", PyNone, FALSE>>,
     <<"postTransaction", PyDict([data |-> FullData]), FALSE>>,
     <<"updateTransaction", PyDict([transactionId |-> PyStr(<<"tx1">>),
                                    data |-> FullData]), FALSE>>,
     <<"get", PyDict([key |-> SharedKey]), FALSE>>,
     <<"set", PyDict([key |-> SharedKey, value |-> PyStr(<<"hello">>)]), FALSE>>,
     <<"getContractState", PyDict([contractAddress |-> PyStr(<<"0xabc">>)]), FALSE>>,
     <<"bogusTool", PyNone, FALSE>>}

\* the answers the external systems give to the operation a frame awaits:
\* the graph endpoint and the CLI fail, and for getTransaction may also
\* succeed; the key-value endpoint answers from its store or with a 500
ConcAnswers(inv) ==
    CASE inv.pc = "await_graph" ->
            {HttpResponse(200, JsonDumps(PyDict([errors |-> ErrorList])))}
            \cup (IF inv.name = "getTransaction"
                  THEN {HttpResponse(200, JsonDumps(PyDict([data |-> TxDoc])))}
                  ELSE {})
      [] inv.pc = "await_cli" ->
            {Proc("ok", 1, <<>>, <<"boom">>)}
            \cup (IF inv.name = "getTransaction"
                  THEN {Proc("ok", 0, JsonDumps(DictA1) \o <<"\n">>, <<>>)}
                  ELSE {})
      [] inv.pc = "await_kv_get" ->
            KvGetResponses(NormArgs(inv.arguments).d["key"]) \ {NetworkFailure}
      [] inv.pc = "await_kv_set" ->
            KvSetResponses(inv.calls[Len(inv.calls)].json.d["id"]) \ {NetworkFailure}
      [] OTHER -> {}

\* the store after the key-value endpoint answered a frame's commit
Committed(inv, resp) ==
    LET call == inv.calls[Len(inv.calls)]
    IN  IF inv.pc = "await_kv_set" /\ resp = KvSetAccepted(call.json.d["id"])
        THEN [store EXCEPT ![call.json.d["id"]] = call.json]
        ELSE store

ConcInit ==
    /\ pc = "idle"
    /\ name = ""
    /\ arguments = PyNone
    /\ calls = <<>>
    /\ result = Ok(PyNone)
    /\ response = <<>>
    /\ store = [k \in KeyValues |-> PyNone]
    /\ boot = Serving
    /\ tasks = [t \in Tasks |-> IdleInvocation]

\* the transport calls handle_call_tool while other invocations may be
\* awaiting
ConcCallTool(t) ==
    /\ tasks[t].pc = "idle"
    /\ \E req \in ConcRequests : tasks' = [tasks EXCEPT ![t] =
                                        Started(req[1], req[2], req[3])]
    /\ UNCHANGED <<pc, name, arguments, calls, result, response, store, boot>>

\* an external system answers the operation invocation t awaits, and the
\* event loop resumes t
ConcRespond(t) ==
    /\ tasks[t].pc \in {"await_graph", "await_cli", "await_kv_get", "await_kv_set"}
    /\ \E resp \in ConcAnswers(tasks[t]) :
        /\ tasks' = [tasks EXCEPT ![t] = Answered(tasks[t], resp)]
        /\ store' = Committed(tasks[t], resp)
    /\ UNCHANGED <<pc, name, arguments, calls, result, response, boot>>

\* the transport takes what invocation t returned
ConcDeliver(t) ==
    /\ tasks[t].pc \in {"done", "escaped"}
    /\ tasks' = [tasks EXCEPT ![t] = IdleInvocation]
    /\ UNCHANGED <<pc, name, arguments, calls, result, response, store, boot>>

ConcNext ==
    \/ \E t \in Tasks : ConcCallTool(t)
    \/ \E t \in Tasks : ConcRespond(t)
    \/ \E t \in Tasks : ConcDeliver(t)

ConcSpec == ConcInit /\ [][ConcNext]_vars

(***************************************************************************)
(* Properties                                                              *)
(***************************************************************************)
Args == NormArgs(arguments)

Awaiting == pc \in {"await_graph", "await_cli", "await_kv_get", "await_kv_set"}

Succeeded == pc = "done" /\ result.ok

Failed == pc = "done" /\ ~result.ok

LastCall == calls[Len(calls)]

\* the subprocess of the invocation's CLI call was started and has ended
CliExited(call) == call.op = "cli" /\ call.resp.kind = "proc" /\ call.resp.launch = "ok"

\* the text handle_call_tool returned
EnvelopeText == response[1].text

\* C1: every invocation ends by returning exactly one textual JSON
\* envelope: no failure of validation, routing or a leaf call leaves the
\* handler unconverted; until it returns, the handler has returned nothing
\* and is waiting for exactly the one operation it issued last.
C1_OneEnvelope ==
    /\ pc # "escaped"
    /\ pc = "done" =>
        /\ Len(response) = 1
        /\ response[1].type = "text"
        /\ EnvelopeText = (IF result.ok THEN JsonDumps(result.value)
                           ELSE JsonDumps(error_details(result.exc, name, Args)))
    /\ pc # "done" => response = <<>>
    /\ Awaiting =>
        /\ calls # <<>>
        /\ LastCall.state = "pending"
        /\ \A i \in 1..(Len(calls) - 1) : calls[i].state # "pending"

\* C1 witness: a leaf failure of a class of its own (the CLI cannot be
\* started after the graph fetch failed) is returned as an envelope
C1_Witness ==
    /\ pc = "done"
    /\ name = "getTransaction"
    /\ Len(calls) = 2
    /\ result.exc.type = "PermissionError"
    /\ Len(response) = 1

\* C2 as stated: success is {success: true, payload}, failure is
\* {success: false, errorKind, message, tool, arguments as passed}
C2_Original ==
    pc = "done" =>
        EnvelopeText =
            (IF result.ok
             THEN JsonDumps(PyDict([success |-> PyBool(TRUE), payload |-> result.value]))
             ELSE JsonDumps(PyDict([success |-> PyBool(FALSE),
                                    errorKind |-> PyStr(<<result.exc.type>>),
                                    message |-> PyStr(<<"Error executing tool '", name, "': ">>
                                                      \o result.exc.msg),
                                    tool |-> PyStr(<<name>>),
                                    arguments |-> arguments])))

\* C2 as amended: on success the envelope is the JSON text of the raw leaf
\* result itself, with no success flag and no payload wrapper; on failure
\* it is {error, message, tool, arguments}: error the failure's class name,
\* message "Error executing tool '<name>': <failure text>", tool the invoked
\* name, arguments the mapping passed (the empty mapping for null).
C2_EnvelopeShapes ==
    pc = "done" =>
        /\ calls # <<>> => result = LastCall.out
        /\ result.ok => response = <<TextContent(JsonDumps(result.value))>>
        /\ ~result.ok =>
            response = <<TextContent(JsonDumps(
                PyDict([error |-> PyStr(<<result.exc.type>>),
                        message |-> PyStr(<<"Error executing tool '", name, "': ">>
                                          \o result.exc.msg),
                        tool |-> PyStr(<<name>>),
                        arguments |-> IF arguments = PyNone THEN EmptyDict
                                      ELSE arguments])))>>

\* C2 witness: a success (the CLI exits 0) whose envelope is, text for text,
\* the failure envelope of the same invocation
C2_Witness ==
    /\ Succeeded
    /\ name = "deployContract"
    /\ CliExited(LastCall)
    /\ LastCall.resp.returncode = 0
    /\ response = FailureContent(Exc("Exception", <<"ResContract CLI error: ", "boom">>),
                                 name, Args)

\* C3 as stated: an unknown name fails with kind UnknownToolError
C3_Original ==
    (pc = "done" /\ name \notin ToolNames) =>
        /\ ~result.ok
        /\ result.exc.type = "UnknownToolError"
        /\ name \in Range(result.exc.msg)
        /\ calls = <<>>

\* C3 as amended: a name outside the catalog yields a failure envelope whose
\* kind is ValueError and whose message is "Error executing tool '<name>':
\* Unknown tool: <name>"; the invocation issues no external operation.
C3_UnknownTool ==
    (pc # "idle" /\ name \notin ToolNames) =>
        /\ pc = "done"
        /\ calls = <<>>
        /\ ~result.ok
        /\ response = FailureContent(Exc("ValueError", <<"Unknown tool: ", name>>),
                                     name, Args)

\* C3 witness: an unknown name with arguments that a catalog tool would accept
C3_Witness ==
    /\ Failed
    /\ name = "Get"
    /\ HasKey(Args, "key")
    /\ result.exc.type = "ValueError"

\* the required arguments of the tool's schema that the mapping lacks
MissingRequired == SchemaRequired(name) \ DOMAIN Args.d

\* C4 as stated: a catalog tool called without a required argument fails
\* with kind ValidationError before any external call
C4_Original ==
    (pc # "idle" /\ name \in ToolNames /\ MissingRequired # {}) =>
        /\ pc = "done"
        /\ ~result.ok
        /\ result.exc.type = "ValidationError"
        /\ calls = <<>>

\* C4 as amended: a catalog tool called with a mapping (or null) that lacks a
\* required argument yields a failure envelope of kind KeyError whose
\* message quotes one of the missing required arguments, and the invocation
\* issues no external operation, whichever required argument is missing.
C4_MissingArgument ==
    (pc # "idle" /\ name \in ToolNames /\ MissingRequired # {}) =>
        /\ pc = "done"
        /\ calls = <<>>
        /\ ~result.ok
        /\ result.exc.type = "KeyError"
        /\ \E k \in MissingRequired : result.exc.msg = <<"'", k, "'">>
        /\ response = FailureContent(result.exc, name, Args)

\* C4 witness: executeContract with its first required argument present and
\* its second one missing
C4_Witness ==
    /\ Failed
    /\ name = "executeContract"
    /\ HasKey(Args, "contractAddress")
    /\ ~HasKey(Args, "methodName")
    /\ result.exc = KeyError("methodName")

\* C5: getTransaction with a transactionId tries the graph first; the CLI
\* fetch is issued exactly once, only after the graph attempt has failed,
\* and always then; a CLI success is the caller's success; the caller sees a
\* failure only when both failed, and then the CLI's failure, not the graph's.
C5_Fallback ==
    (pc # "idle" /\ name = "getTransaction" /\ HasKey(Args, "transactionId")) =>
        /\ Len(calls) \in {1, 2}
        /\ calls[1].op = "graph"
        /\ calls[1].state = "ok" => Len(calls) = 1
        /\ calls[1].state = "pending" => Len(calls) = 1
        /\ calls[1].state = "failed" =>
            /\ Len(calls) = 2
            /\ calls[2].op = "cli"
            /\ calls[2].argv = <<PyStr(<<"rescontract">>), PyStr(<<"transaction">>),
                                 Args.d["transactionId"]>>
        /\ (pc = "done" /\ LastCall.state = "ok") =>
            /\ result.ok
            /\ response = SuccessContent(LastCall.out.value)
        /\ Failed =>
            /\ Len(calls) = 2
            /\ calls[1].state = "failed"
            /\ calls[2].state = "failed"
            /\ response = FailureContent(calls[2].out.exc, name, Args)
            /\ response # FailureContent(calls[1].out.exc, name, Args)

\* C5 witness: the graph answers with errors, the CLI then exits non-zero
C5_Witness ==
    /\ Failed
    /\ name = "getTransaction"
    /\ Len(calls) = 2
    /\ calls[1].out.exc.type = "Exception"
    /\ calls[2].resp.returncode = 1
    /\ calls[2].resp.stderr = <<"boom">>

\* the required fields the data object of postTransaction lacks
MissingOfData ==
    {f \in Range(required_fields) : ~HasKey(Args.d["data"], f)}

\* C6 as stated: with fields missing the call fails without a request and
\* the message names every missing field and no field that is present; with
\* all six present exactly one graph request is issued
C6_Original ==
    (pc # "idle" /\ name = "postTransaction" /\ HasKey(Args, "data")) =>
        IF MissingOfData # {}
        THEN /\ Failed
             /\ calls = <<>>
             /\ Range(result.exc.msg) \cap Range(required_fields) = MissingOfData
        ELSE /\ Len(calls) = 1
             /\ calls[1].op = "graph"

\* C6 as amended: with fields missing the call fails without a request; the
\* message's list of missing fields (between "Missing required fields in
\* PrepareAsset: " and ". ") names exactly the missing fields, in declared
\* order, and the message then lists all six required fields, present ones
\* included; with all six present exactly one graph request is issued.
C6_MissingFields ==
    (pc # "idle" /\ name = "postTransaction" /\ HasKey(Args, "data")) =>
        IF MissingOfData # {}
        THEN /\ Failed
             /\ calls = <<>>
             /\ LET msg == result.exc.msg
                    stop == CHOOSE i \in DOMAIN msg :
                                /\ msg[i] = ". "
                                /\ \A j \in 1..(i - 1) : msg[j] # ". "
                    listed == SelectSeq(SubSeq(msg, 2, stop - 1), LAMBDA tok : tok # ", ")
                    rest == SubSeq(msg, stop + 1, Len(msg))
                IN  /\ ". " \in Range(msg)
                    /\ msg[1] = "Missing required fields in PrepareAsset: "
                    /\ listed = SelectSeq(required_fields, LAMBDA f : f \in MissingOfData)
                    /\ rest[1] = "Required fields: "
                    /\ SelectSeq(rest, LAMBDA tok : tok \in Range(required_fields))
                         = required_fields
        ELSE /\ Len(calls) = 1
             /\ calls[1].op = "graph"
             /\ calls[1].json.d["variables"] = PyDict([data |-> Args.d["data"]])

\* C6 witness: amount and asset are missing, the other four are present
C6_Witness ==
    /\ Failed
    /\ name = "postTransaction"
    /\ HasKey(Args, "data")
    /\ MissingOfData = {"amount", "asset"}
    /\ calls = <<>>

\* C7: set over the REST path transmits, and reports, a non-string value
\* as its JSON text and a string value unchanged; what the endpoint holds
\* for a key is a string; and a get of a key the endpoint holds returns
\* {key, value} with that key and the string the set transmitted.
C7_SetGetRoundTrip ==
    /\ (name = "set" /\ calls # <<>>) =>
        LET value == Args.d["value"]
            sent == calls[1].json.d["value"]
        IN  /\ calls[1].json.d["id"] = Args.d["key"]
            /\ IsStr(sent)
            /\ IsStr(value) => sent = value
            /\ ~IsStr(value) => sent.s = JsonDumps(value)
            /\ value = DictA1 => sent.s = <<"{", "\"", "a", "\"", ": ", "1", "}">>
            /\ Succeeded =>
                /\ result.value.d["key"] = Args.d["key"]
                /\ result.value.d["value"] = sent
                /\ store[Args.d["key"]] = calls[1].json
    /\ \A k \in KeyValues : store[k] # PyNone =>
        /\ store[k].d["id"] = k
        /\ IsStr(store[k].d["value"])
    /\ (name = "get" /\ Succeeded) =>
        /\ store[Args.d["key"]] # PyNone
        /\ result.value.d["key"] = Args.d["key"]
        /\ result.value.d["value"] = store[Args.d["key"]].d["value"]
        /\ {"key", "value"} \subseteq DOMAIN result.value.d

\* C7 witness: a get returns the JSON text of the object {"a": 1} for a key
\* the endpoint holds
C7_Witness ==
    /\ name = "get"
    /\ Succeeded
    /\ result.value.d["value"] = PyStr(<<"{", "\"", "a", "\"", ": ", "1", "}">>)

\* C8: a CLI call whose subprocess exits 0 always succeeds: when the trimmed
\* stdout is the JSON text of a document the payload is that document,
\* otherwise the payload is {output: <trimmed stdout>, raw: true}.
C8_ExitZero ==
    (pc = "done" /\ calls # <<>> /\ CliExited(LastCall) /\ LastCall.resp.returncode = 0) =>
        LET output == Strip(LastCall.resp.stdout)
            isJson == \E v \in JsonDocs : JsonDumps(v) = output
        IN  /\ name \in CliTools
            /\ result.ok
            /\ response = SuccessContent(result.value)
            /\ isJson => JsonDumps(result.value) = output
            /\ ~isJson => result.value = PyDict([output |-> PyStr(output),
                                                 raw |-> PyBool(TRUE)])

\* C8 witness: stdout "deployed at 0xabc" and a newline, exit status 0
C8_Witness ==
    /\ Succeeded
    /\ name = "deployContract"
    /\ CliExited(LastCall)
    /\ LastCall.resp.returncode = 0
    /\ LastCall.resp.stdout = <<"deployed at 0xabc", "\n">>
    /\ EnvelopeText = <<"{", "\"", "output", "\"", ": ", "\"", "deployed at 0xabc", "\"",
                        ", ", "\"", "raw", "\"", ": ", "true", "}">>

\* C9 as stated: a non-zero exit yields a failure of kind CommandError whose
\* message carries stderr, or a placeholder when stderr is empty
C9_Original ==
    (pc = "done" /\ calls # <<>> /\ CliExited(LastCall) /\ LastCall.resp.returncode # 0) =>
        /\ ~result.ok
        /\ result.exc.type = "CommandError"
        /\ result.exc.msg = <<"ResContract CLI error: ">>
                            \o (IF LastCall.resp.stderr # <<>> THEN LastCall.resp.stderr
                                ELSE <<"Unknown error">>)

\* C9 as amended: a CLI call whose subprocess exits non-zero yields a failure
\* envelope of kind Exception whose message ends with "ResContract CLI
\* error: " and the captured stderr text, or "Unknown error" when stderr is
\* empty; its stdout is never returned as a success payload.
C9_ExitNonZero ==
    (pc = "done" /\ calls # <<>> /\ CliExited(LastCall) /\ LastCall.resp.returncode # 0) =>
        /\ ~result.ok
        /\ result.exc.type = "Exception"
        /\ result.exc.msg = <<"ResContract CLI error: ">>
                            \o (IF LastCall.resp.stderr # <<>> THEN LastCall.resp.stderr
                                ELSE <<"Unknown error">>)
        /\ response = FailureContent(result.exc, name, Args)

\* C9 witness: exit status 1 with JSON on stdout and nothing on stderr
C9_Witness ==
    /\ Failed
    /\ name = "getContractState"
    /\ calls # <<>>
    /\ CliExited(LastCall)
    /\ LastCall.resp.returncode = 1
    /\ LastCall.resp.stdout # <<>>
    /\ LastCall.resp.stderr = <<>>
    /\ "Unknown error" \in Range(result.exc.msg)

\* the graph endpoint answered HTTP 200 with this JSON body
GraphAnswered(call, body) ==
    /\ call.op = "graph"
    /\ call.resp.kind = "http"
    /\ call.resp.status = 200
    /\ call.resp.text = JsonDumps(body)

\* C10 as stated: an errors field fails with GraphOperationError, an error
\* status with TransportError
C10_Original ==
    (calls # <<>> /\ calls[1].op = "graph" /\ calls[1].state # "pending") =>
        /\ \A b \in GraphBodies : (GraphAnswered(calls[1], b) /\ HasKey(b, "errors")) =>
            calls[1].out.exc.type = "GraphOperationError"
        /\ (calls[1].resp.kind = "http" /\ calls[1].resp.status >= 400) =>
            calls[1].out.exc.type = "TransportError"

\* C10 as amended: a graph answer of HTTP success whose body has an errors
\* field fails with an Exception whose message is "GraphQL errors: " and the
\* serialized error list, also when the body has a data field; data (or {}
\* when absent) is the result only when the body has no errors field; an
\* HTTP error status fails with an HTTPStatusError naming the status.
C10_GraphErrors ==
    (calls # <<>> /\ calls[1].op = "graph" /\ calls[1].state # "pending") =>
        /\ \A b \in GraphBodies : GraphAnswered(calls[1], b) =>
            IF HasKey(b, "errors")
            THEN calls[1].out = Raised(Exc("Exception",
                                   <<"GraphQL errors: ">> \o JsonDumps(b.d["errors"])))
            ELSE calls[1].out = Ok(IF HasKey(b, "data") THEN b.d["data"] ELSE EmptyDict)
        /\ calls[1].out.ok => \E b \in GraphBodies :
                                /\ GraphAnswered(calls[1], b)
                                /\ ~HasKey(b, "errors")
        /\ (calls[1].resp.kind = "http" /\ calls[1].resp.status >= 400) =>
            /\ ~calls[1].out.ok
            /\ calls[1].out.exc.type = "HTTPStatusError"
            /\ ToString(calls[1].resp.status) \in Range(calls[1].out.exc.msg)
        /\ (name = "postTransaction" /\ pc = "done") =>
            response = (IF calls[1].out.ok THEN SuccessContent(calls[1].out.value)
                        ELSE FailureContent(calls[1].out.exc, name, Args))

\* C10 witness: postTransaction is answered HTTP 200 with both data and errors
C10_Witness ==
    /\ Failed
    /\ name = "postTransaction"
    /\ calls # <<>>
    /\ GraphAnswered(calls[1], PyDict([data |-> TxDoc, errors |-> ErrorList]))
    /\ result.exc.type = "Exception"

\* the invocation is one of the two operations the clients refuse outright:
\* createAccount with or without an accountId, updateTransaction with both
\* a transactionId and data
Unsupported ==
    /\ pc # "idle"
    /\ \/ name = "createAccount"
       \/ name = "updateTransaction" /\ MissingRequired = {}

\* the text each refused operation gives as its reason
PolicyMessage(n) ==
    IF n = "createAccount"
    THEN <<"createAccount is not available. ",
           "Account creation requires generating cryptographic keys outside of GraphQL. ",
           "Use external key generation tools to create accounts.">>
    ELSE <<"updateTransaction is not available. ",
           "Blockchain transactions are immutable once committed. ",
           "To modify data, create a new transaction instead.">>

ClientSettings == Range(GraphQLClientReads) \cup {"RESCONTRACT_CLI_PATH"}

\* C12: the configuration provides all five settings the clients use
\* (graph endpoint URL, key-value endpoint URL, CLI path, optional
\* credential, request timeout); once it is loaded, startup constructs both
\* clients from defined settings and never stops on a setting that is not
\* there, and the loaded configuration is what the clients hold afterwards.
C12_Original ==
    /\ boot.phase \in {"config", "serving"} =>
            ClientSettings \subseteq DOMAIN boot.Config
    /\ boot.error.type # "AttributeError"
    /\ boot.phase = "serving" =>
            /\ boot.graphql_client.http_url = boot.Config["HTTP_URL"]
            /\ boot.graphql_client.url = boot.Config["GRAPHQL_URL"]
            /\ boot.rescontract_client.cli_path = boot.Config["RESCONTRACT_CLI_PATH"]

\* the operations of a frame that have no answer yet
Outstanding(inv) == {i \in DOMAIN inv.calls : inv.calls[i].state = "pending"}

\* the answers a frame's operations were given, in order
AnswersOf(inv) ==
    [i \in (DOMAIN inv.calls) \ Outstanding(inv) |-> inv.calls[i].resp]

\* the frame awaits an external operation
Suspended(inv) == inv.pc \in {"await_graph", "await_cli", "await_kv_get", "await_kv_set"}

\* the frame handle_call_tool(n, a) is in when it runs with no other
\* invocation around and its operations are answered by answers, in order;
\* a frame that has returned takes no further answer
Alone(n, a, exists, answers) ==
    LET s0 == Started(n, a, exists)
        s1 == IF Len(answers) >= 1 /\ Suspended(s0) THEN Answered(s0, answers[1]) ELSE s0
    IN  IF Len(answers) >= 2 /\ Suspended(s1) THEN Answered(s1, answers[2]) ELSE s1

====
